---- MODULE Spec2Model ----
(***************************************************************************)
(* Game state of the fantasy competition client: the roster rule engine    *)
(* (selectPlayer / removePlayer / setCaptain / resetSelection), the        *)
(* current-round determination done by refreshData, and saveTeam /         *)
(* loadTeam against the server and the device's local storage.             *)
(*                                                                         *)
(* Prices and budgets are counted in millions (the catalog only holds      *)
(* prices between 1M and 10M).  Time is an integer clock; a deadline is an *)
(* integer instant.  null is modelled by NULL.                             *)
(***************************************************************************)
EXTENDS Integers, Sequences, FiniteSets, TLC

\* ------------------------------------------------------------------ bounds
MaxPlayer == 3
MaxTransfers == 2
MaxTime == 2

\* ------------------------------------------------------------ value spaces
NULL == -1
Infinity == 1000000

PlayerIds == 1..MaxPlayer
RoundNums == {1, 2}
Users == {"u1"}

\* a second account, and the accounts that have teams stored on the device
OtherUser == "u2"

StoreUsers == Users \cup {OtherUser}
NoUser == "none"

\* A catalog maps the ids of the players it holds to their price.  The price
\* lists used: alternating 2, 1, 2, ... and all 2.
PriceLists ==
  {[p \in PlayerIds |-> 1 + (p % 2)], [p \in PlayerIds |-> 2]}

Restrict(f, S) == [x \in S |-> f[x]]

Catalogs ==
  {Restrict(pl, S) : pl \in PriceLists,
                     S \in {PlayerIds, PlayerIds \ {MaxPlayer}}}

EmptyCatalog == << >>

\* Fields of a Round record as the client reads them.
RoundRecord(n, d, pa, b, c) ==
  [round |-> n, deadline |-> d, playersAllowed |-> pa, budget |-> b,
   isClosed |-> c, freeTransfers |-> 1, transferPenalty |-> 30]

\* (deadline, isClosed) of a round that is open at time 1, closed by the
\* admin, and past its deadline at time 1.
Closures == {<<2, FALSE>>, <<2, TRUE>>, <<1, FALSE>>}

RoundRecords ==
  {RoundRecord(1, c[1], pa, b, c[2]) :
     c \in Closures, pa \in {1, 2}, b \in {NULL, 3}}

DefaultPointsConfig ==
  [correctAnswer |-> 5, wrongAnswer |-> 0, transferPenalty |-> 30,
   freeTransfersPerRound |-> 1]

PointsConfigs ==
  {DefaultPointsConfig,
   [correctAnswer |-> 5, wrongAnswer |-> 0, transferPenalty |-> 10,
    freeTransfersPerRound |-> 0]}

\* ---------------------------------------------------------------- state
VARIABLES
  players,          \* GameContext: player catalog
  rounds,           \* GameContext: list of rounds
  pointsConfig,     \* GameContext: global points configuration
  currentRound,     \* GameContext: current round number
  selectedPlayers,  \* GameContext: roster, in insertion order
  captainId,        \* GameContext: captain or NULL
  totalPoints,      \* GameContext
  transfersUsed,    \* GameContext
  hasMatches,       \* GameContext
  user,             \* AuthContext: id of the logged-in user or NoUser
  authStored,       \* AsyncStorage: @fantasy_auth_user entry or NoUser
  apiUser,          \* ApiService.currentUserId or NoUser
  storage,          \* AsyncStorage: team_<userId>_round_<round> entries
  now,              \* the device clock
  serverRounds,     \* backend: the table of rounds
  verifying,        \* AuthContext: user of the pending background check
  retry,            \* retryHelper: the state of the running retry loop
  lastOp,           \* history: the last handler run, its argument and outcome
  pre               \* history: the roster before the last successful removal

vars ==
  <<players, rounds, pointsConfig, currentRound, selectedPlayers, captainId,
    totalPoints, transfersUsed, hasMatches, user, authStored, apiUser, storage,
    now, serverRounds, verifying, retry, lastOp, pre>>

dataVars == <<players, rounds, pointsConfig, currentRound, hasMatches>>

rosterVars == <<selectedPlayers, captainId, totalPoints, transfersUsed>>

authVars == <<user, authStored, apiUser>>

backVars == <<serverRounds, verifying, retry>>

Op(name, arg, res) == [op |-> name, arg |-> arg, res |-> res]

NoPre ==
  [stage |-> "none", id |-> 0, sel |-> << >>, cap |-> NULL, tu |-> 0, tp |-> 0]

\* ------------------------------------------------------------- helpers
Includes(seq, x) == \E i \in DOMAIN seq : seq[i] = x

Members(seq) == {seq[i] : i \in DOMAIN seq}

Filter(seq, Keep(_)) == SelectSeq(seq, Keep)

\* players.find(p => p.id === id) found something
PlayerExists(ps, id) == id \in DOMAIN ps

\* sum + (player?.price || 0) over the selection
RECURSIVE Spent(_, _)
Spent(ps, sel) ==
  IF sel = << >> THEN 0
  ELSE (IF PlayerExists(ps, Head(sel)) THEN ps[Head(sel)] ELSE 0)
       + Spent(ps, Tail(sel))

\* rounds.find(r => r.round === currentRound): index of the first match, 0 if none
RECURSIVE FindRound(_, _, _)
FindRound(rs, n, i) ==
  IF i > Len(rs) THEN 0
  ELSE IF rs[i].round = n THEN i
  ELSE FindRound(rs, n, i + 1)

HasRoundInfo == FindRound(rounds, currentRound, 1) # 0

getCurrentRoundInfo == rounds[FindRound(rounds, currentRound, 1)]

getRemainingBudget ==
  IF ~HasRoundInfo \/ getCurrentRoundInfo.budget = NULL THEN Infinity
  ELSE getCurrentRoundInfo.budget - Spent(players, selectedPlayers)

\* canSelectPlayer without its budget check
canSelectPlayerNoBudget(playerId) ==
  IF ~HasRoundInfo THEN FALSE
  ELSE IF Includes(selectedPlayers, playerId) THEN FALSE
  ELSE IF Len(selectedPlayers) >= getCurrentRoundInfo.playersAllowed THEN FALSE
  ELSE IF ~PlayerExists(players, playerId) THEN FALSE
  ELSE TRUE

\* canSelectPlayer with the team-size check off by one (> for >=)
canSelectPlayerSizeOffByOne(playerId) ==
  IF ~HasRoundInfo THEN FALSE
  ELSE IF Includes(selectedPlayers, playerId) THEN FALSE
  ELSE IF Len(selectedPlayers) > getCurrentRoundInfo.playersAllowed THEN FALSE
  ELSE IF ~PlayerExists(players, playerId) THEN FALSE
  ELSE IF getCurrentRoundInfo.budget # NULL
          /\ players[playerId] > getRemainingBudget THEN FALSE
  ELSE TRUE

\* canSelectPlayer refusing a player that costs exactly the remaining budget
canSelectPlayerBudgetStrict(playerId) ==
  IF ~HasRoundInfo THEN FALSE
  ELSE IF Includes(selectedPlayers, playerId) THEN FALSE
  ELSE IF Len(selectedPlayers) >= getCurrentRoundInfo.playersAllowed THEN FALSE
  ELSE IF ~PlayerExists(players, playerId) THEN FALSE
  ELSE IF getCurrentRoundInfo.budget # NULL
          /\ players[playerId] >= getRemainingBudget THEN FALSE
  ELSE TRUE

canSelectPlayer(playerId) ==
  IF ~HasRoundInfo THEN FALSE
  ELSE IF Includes(selectedPlayers, playerId) THEN FALSE
  ELSE IF Len(selectedPlayers) >= getCurrentRoundInfo.playersAllowed THEN FALSE
  ELSE IF ~PlayerExists(players, playerId) THEN FALSE
  ELSE IF getCurrentRoundInfo.budget # NULL
          /\ players[playerId] > getRemainingBudget THEN FALSE
  ELSE TRUE

\* ------------------------------------------------------- roster handlers
selectPlayerResult(playerId) ==
  IF playerId <= 0 THEN "InvalidId"
  ELSE IF ~PlayerExists(players, playerId) THEN "PlayerNotFound"
  ELSE IF canSelectPlayer(playerId) THEN "selected"
  ELSE "rejected"

selectPlayer(playerId) ==
  LET res == selectPlayerResult(playerId) IN
  /\ selectedPlayers' =
       IF res = "selected" THEN Append(selectedPlayers, playerId)
       ELSE selectedPlayers
  /\ lastOp' = Op("selectPlayer", playerId, res)
  /\ pre' = IF pre.stage = "removed" /\ pre.id = playerId
            THEN [pre EXCEPT !.stage = "reselected"]
            ELSE NoPre
  /\ UNCHANGED <<captainId, totalPoints, transfersUsed>>
  /\ UNCHANGED <<dataVars, authVars, storage, now, backVars>>

removePlayerResult(playerId) ==
  IF playerId <= 0 THEN "InvalidId"
  ELSE IF ~PlayerExists(players, playerId) THEN "PlayerNotFound"
  ELSE IF ~Includes(selectedPlayers, playerId) THEN "NotInTeam"
  ELSE "removed"

\* removalPenalty with the allowance test off by one (< 0 for <= 0)
removalPenaltyOffByOne ==
  IF pointsConfig.freeTransfersPerRound - transfersUsed < 0
  THEN pointsConfig.transferPenalty
  ELSE 0

\* the penalty branch of removePlayer: points taken off by this removal
removalPenalty ==
  IF pointsConfig.freeTransfersPerRound - transfersUsed <= 0
  THEN pointsConfig.transferPenalty
  ELSE 0

\* captainAfterRemove without the clearing of a removed captain
captainAfterRemoveKept(playerId) == captainId

\* "If removed player was captain, clear captain"
captainAfterRemove(playerId) ==
  IF captainId = playerId THEN NULL ELSE captainId

\* The two guards on a successful removal keep the counters finite: at most
\* MaxTransfers transfers in a round, and penalties of at most MaxTransfers - 1
\* paid removals in all (resetSelection zeroes transfersUsed, never
\* totalPoints).
removePlayer(playerId) ==
  LET res == removePlayerResult(playerId) IN
  /\ res = "removed" =>
       /\ transfersUsed < MaxTransfers
       /\ totalPoints - removalPenalty
            >= -((MaxTransfers - 1) * pointsConfig.transferPenalty)
  /\ IF res = "removed"
     THEN /\ selectedPlayers' =
               Filter(selectedPlayers, LAMBDA id : id # playerId)
          /\ captainId' = captainAfterRemove(playerId)
          /\ transfersUsed' = transfersUsed + 1
          /\ totalPoints' = totalPoints - removalPenalty
          /\ pre' = [stage |-> "removed", id |-> playerId,
                     sel |-> selectedPlayers, cap |-> captainId,
                     tu |-> transfersUsed, tp |-> totalPoints]
     ELSE /\ UNCHANGED <<selectedPlayers, captainId, transfersUsed,
                         totalPoints>>
          /\ pre' = NoPre
  /\ lastOp' = Op("removePlayer", playerId, res)
  /\ UNCHANGED <<dataVars, authVars, storage, now, backVars>>

\* -------------------------------------------- TeamSelectionScreen: tap
\* handleSelectPlayer with the reasons of a refusal looked up budget first
handleSelectPlayerResultBudgetFirst(playerId) ==
  IF playerId = 0 THEN "InvalidPlayer"
  ELSE IF ~PlayerExists(players, playerId) THEN "PlayerNotFound"
  ELSE IF ~HasRoundInfo THEN "InvalidRound"
  ELSE IF Includes(selectedPlayers, playerId) THEN "removed"
  ELSE IF canSelectPlayer(playerId) THEN "selected"
  ELSE IF getCurrentRoundInfo.budget # NULL
          /\ getCurrentRoundInfo.budget # 0
          /\ players[playerId] > getRemainingBudget
       THEN "BudgetExceeded"
  ELSE IF Len(selectedPlayers) >= getCurrentRoundInfo.playersAllowed
       THEN "TeamFull"
  ELSE "NoReason"

\* what a tap on a player of the list does: remove a selected player, select
\* one that can be selected, or tell why it cannot be
handleSelectPlayerResult(playerId) ==
  IF playerId = 0 THEN "InvalidPlayer"
  ELSE IF ~PlayerExists(players, playerId) THEN "PlayerNotFound"
  ELSE IF ~HasRoundInfo THEN "InvalidRound"
  ELSE IF Includes(selectedPlayers, playerId) THEN "removed"
  ELSE IF canSelectPlayer(playerId) THEN "selected"
  ELSE IF Len(selectedPlayers) >= getCurrentRoundInfo.playersAllowed
       THEN "TeamFull"
  ELSE IF getCurrentRoundInfo.budget # NULL
          /\ getCurrentRoundInfo.budget # 0
          /\ players[playerId] > getRemainingBudget
       THEN "BudgetExceeded"
  ELSE "NoReason"

\* the refusals of handleSelectPlayer that follow a failed canSelectPlayer
Refusals == {"TeamFull", "BudgetExceeded", "NoReason"}

\* the tap calls removePlayer or selectPlayer of the provider; the guards on
\* a removal are those of removePlayer
handleSelectPlayer(playerId) ==
  LET res == handleSelectPlayerResult(playerId) IN
  /\ res = "removed" =>
       /\ transfersUsed < MaxTransfers
       /\ totalPoints - removalPenalty
            >= -((MaxTransfers - 1) * pointsConfig.transferPenalty)
  /\ IF res = "removed"
     THEN /\ selectedPlayers' =
               Filter(selectedPlayers, LAMBDA id : id # playerId)
          /\ captainId' = captainAfterRemove(playerId)
          /\ transfersUsed' = transfersUsed + 1
          /\ totalPoints' = totalPoints - removalPenalty
          /\ pre' = [stage |-> "removed", id |-> playerId,
                     sel |-> selectedPlayers, cap |-> captainId,
                     tu |-> transfersUsed, tp |-> totalPoints]
     ELSE /\ selectedPlayers' =
               IF res = "selected" THEN Append(selectedPlayers, playerId)
               ELSE selectedPlayers
          /\ pre' = IF pre.stage = "removed" /\ pre.id = playerId
                    THEN [pre EXCEPT !.stage = "reselected"]
                    ELSE NoPre
          /\ UNCHANGED <<captainId, transfersUsed, totalPoints>>
  /\ lastOp' = Op("handleSelectPlayer", playerId, res)
  /\ UNCHANGED <<dataVars, authVars, storage, now, backVars>>

\* setCaptain without the check that the player is in the team
setCaptainResultNoMembership(playerId) ==
  IF playerId = NULL THEN "cleared"
  ELSE IF playerId <= 0 THEN "InvalidId"
  ELSE IF ~PlayerExists(players, playerId) THEN "PlayerNotFound"
  ELSE "set"

setCaptainResult(playerId) ==
  IF playerId = NULL THEN "cleared"
  ELSE IF playerId <= 0 THEN "InvalidId"
  ELSE IF ~PlayerExists(players, playerId) THEN "PlayerNotFound"
  ELSE IF ~Includes(selectedPlayers, playerId) THEN "InvalidCaptain"
  ELSE "set"

setCaptain(playerId) ==
  LET res == setCaptainResult(playerId) IN
  /\ captainId' = IF res = "cleared" THEN NULL
                  ELSE IF res = "set" THEN playerId
                  ELSE captainId
  /\ lastOp' = Op("setCaptain", playerId, res)
  /\ pre' = NoPre
  /\ UNCHANGED <<selectedPlayers, totalPoints, transfersUsed>>
  /\ UNCHANGED <<dataVars, authVars, storage, now, backVars>>

resetSelection ==
  /\ selectedPlayers' = << >>
  /\ captainId' = NULL
  /\ transfersUsed' = 0
  /\ lastOp' = Op("resetSelection", NULL, "reset")
  /\ pre' = NoPre
  /\ UNCHANGED <<totalPoints, dataVars, authVars, storage, now, backVars>>

\* ------------------------------------------------------- current round
\* the scan of determinCurrentRoundFromData: the round number of the first
\* round from position i on whose deadline is after t, 1 when there is none
\* ScanRounds without the break: the last round with a deadline after t wins
RECURSIVE ScanRoundsNoBreak(_, _, _)
ScanRoundsNoBreak(roundsData, t, i) ==
  IF i > Len(roundsData) THEN 1
  ELSE LET rest == ScanRoundsNoBreak(roundsData, t, i + 1) IN
       IF t < roundsData[i].deadline
          /\ \A j \in (i + 1)..Len(roundsData) : ~(t < roundsData[j].deadline)
       THEN roundsData[i].round
       ELSE rest

RECURSIVE ScanRounds(_, _, _)
ScanRounds(roundsData, t, i) ==
  IF i > Len(roundsData) THEN 1
  ELSE IF t < roundsData[i].deadline THEN roundsData[i].round
  ELSE ScanRounds(roundsData, t, i + 1)

determinCurrentRoundFromData(roundsData, t) ==
  IF Len(roundsData) = 0 THEN 1 ELSE ScanRounds(roundsData, t, 1)

\* refreshData keeps the rounds that have a round number, a deadline and a
\* squad size
IsValidRound(r) == r.round # 0 /\ r.deadline # 0 /\ r.playersAllowed # 0

\* --------------------------------------------------------------- teams
TeamRecord(sel, cap, tu, tp) ==
  [selectedPlayers |-> sel, captainId |-> cap, transfersUsed |-> tu,
   totalPoints |-> tp]

TeamKey(u, r) == <<u, r>>

\* answers of the server to getUserTeam
TeamAnswer(kind) == [kind |-> kind, team |-> TeamRecord(<< >>, NULL, 0, 0)]

\* the local-storage fallback of loadTeam: the stored team is taken as it is
loadTeamFallback(cr) ==
  LET saved == storage[TeamKey(user, cr)] IN
  IF saved # << >>
  THEN /\ selectedPlayers' = saved[1].selectedPlayers
       /\ captainId' = saved[1].captainId
       /\ transfersUsed' = saved[1].transfersUsed
       /\ totalPoints' = saved[1].totalPoints
  ELSE UNCHANGED rosterVars

\* loadTeam taking the captain of the server's team as it is
loadedCaptainUnchecked(team, validPlayers) ==
  IF team.captainId # NULL /\ team.captainId # 0
  THEN team.captainId
  ELSE NULL

\* the captain loadTeam keeps from a team of the server
loadedCaptain(team, validPlayers) ==
  IF team.captainId # NULL /\ team.captainId # 0
     /\ Includes(validPlayers, team.captainId)
  THEN team.captainId
  ELSE NULL

\* loadTeam as run by a closure that sees catalog pl and current round cr;
\* resp is the answer of the server
loadTeamWith(pl, cr, resp) ==
  IF user = NoUser THEN UNCHANGED <<rosterVars, storage>>
  ELSE IF resp.kind \in {"found", "foundStoreFails"}
  THEN LET validPlayers ==
             SelectSeq(resp.team.selectedPlayers,
                       LAMBDA id : PlayerExists(pl, id))
           saved == storage[TeamKey(user, cr)]
       IN  IF resp.kind = "found" \/ saved = << >>
           THEN /\ selectedPlayers' = validPlayers
                /\ captainId' = loadedCaptain(resp.team, validPlayers)
                /\ transfersUsed' = resp.team.transfersUsed
                /\ totalPoints' = resp.team.totalPoints
                /\ storage' =
                     IF resp.kind = "found"
                     THEN [storage EXCEPT ![TeamKey(user, cr)] = <<resp.team>>]
                     ELSE storage
           ELSE loadTeamFallback(cr) /\ UNCHANGED storage
  ELSE IF resp.kind = "error"
  THEN loadTeamFallback(cr) /\ UNCHANGED storage
  ELSE UNCHANGED <<rosterVars, storage>>

loadTeamResult(resp) ==
  IF user = NoUser THEN "AuthenticationRequired" ELSE resp.kind

loadTeam(resp) ==
  /\ loadTeamWith(players, currentRound, resp)
  /\ lastOp' = Op("loadTeam", NULL, loadTeamResult(resp))
  /\ pre' = NoPre
  /\ UNCHANGED <<dataVars, authVars, now, backVars>>

\* ------------------------------------------------------------ saveTeam
invalidPlayers ==
  SelectSeq(selectedPlayers, LAMBDA id : ~PlayerExists(players, id))

\* saveTeam without the check that a user is logged in
saveTeamResultNoAuth(submitOk) ==
  IF ~HasRoundInfo THEN "InvalidRound"
  ELSE IF getCurrentRoundInfo.isClosed THEN "RoundClosed"
  ELSE IF Len(selectedPlayers) # getCurrentRoundInfo.playersAllowed
       THEN "IncompleteTeam"
  ELSE IF Len(invalidPlayers) > 0 THEN "InvalidTeam"
  ELSE IF captainId # NULL /\ ~Includes(selectedPlayers, captainId)
       THEN "InvalidCaptain"
  ELSE IF getCurrentRoundInfo.budget # NULL
          /\ Spent(players, selectedPlayers) > getCurrentRoundInfo.budget
       THEN "BudgetExceeded"
  ELSE IF submitOk THEN "saved"
  ELSE "SaveFailed"

\* saveTeam without the validation of the team size
saveTeamResultNoSizeCheck(submitOk) ==
  IF user = NoUser THEN "AuthenticationRequired"
  ELSE IF ~HasRoundInfo THEN "InvalidRound"
  ELSE IF getCurrentRoundInfo.isClosed THEN "RoundClosed"
  ELSE IF Len(invalidPlayers) > 0 THEN "InvalidTeam"
  ELSE IF captainId # NULL /\ ~Includes(selectedPlayers, captainId)
       THEN "InvalidCaptain"
  ELSE IF getCurrentRoundInfo.budget # NULL
          /\ Spent(players, selectedPlayers) > getCurrentRoundInfo.budget
       THEN "BudgetExceeded"
  ELSE IF submitOk THEN "saved"
  ELSE "SaveFailed"

\* the validations of saveTeam in their order, then the answer of submitTeam
saveTeamResult(submitOk) ==
  IF user = NoUser THEN "AuthenticationRequired"
  ELSE IF ~HasRoundInfo THEN "InvalidRound"
  ELSE IF getCurrentRoundInfo.isClosed THEN "RoundClosed"
  ELSE IF Len(selectedPlayers) # getCurrentRoundInfo.playersAllowed
       THEN "IncompleteTeam"
  ELSE IF Len(invalidPlayers) > 0 THEN "InvalidTeam"
  ELSE IF captainId # NULL /\ ~Includes(selectedPlayers, captainId)
       THEN "InvalidCaptain"
  ELSE IF getCurrentRoundInfo.budget # NULL
          /\ Spent(players, selectedPlayers) > getCurrentRoundInfo.budget
       THEN "BudgetExceeded"
  ELSE IF submitOk THEN "saved"
  ELSE "SaveFailed"

\* the outcomes of saveTeam in which api.submitTeam was called
SubmitCalled == {"saved", "SaveFailed"}

\* saveTeam writing the local copy before the answer of the server is known
saveTeamStoresFirst(submitOk) ==
  LET res == saveTeamResult(submitOk) IN
  /\ storage' =
       IF res \in SubmitCalled
       THEN [storage EXCEPT ![TeamKey(user, currentRound)] =
               <<TeamRecord(selectedPlayers, captainId, transfersUsed,
                            totalPoints)>>]
       ELSE storage
  /\ lastOp' = Op("saveTeam", NULL, res)
  /\ pre' = NoPre
  /\ UNCHANGED <<dataVars, rosterVars, authVars, now, backVars>>

\* A failing local write after a successful submit ends in the same alert
\* and the same local state as a failing submit: both are submitOk = FALSE.
saveTeam(submitOk) ==
  LET res == saveTeamResult(submitOk) IN
  /\ storage' =
       IF res = "saved"
       THEN [storage EXCEPT ![TeamKey(user, currentRound)] =
               <<TeamRecord(selectedPlayers, captainId, transfersUsed,
                            totalPoints)>>]
       ELSE storage
  /\ lastOp' = Op("saveTeam", NULL, res)
  /\ pre' = NoPre
  /\ UNCHANGED <<dataVars, rosterVars, authVars, now, backVars>>

\* ----------------------------------------------------------- refreshData
Answer(ok, data) == [ok |-> ok, data |-> data]

\* refreshData with the answers of getPlayers, getRounds, getMatches (the
\* rounds that have matches), getPointsConfig and getUserTeam.  The loadTeam
\* it awaits at its end is the one of the render that started the refresh:
\* it sees the catalog and the current round from before the refresh.
refreshData(playersResp, roundsResp, matchRounds, configResp, teamResp) ==
  LET validRounds ==
        IF roundsResp.ok THEN SelectSeq(roundsResp.data, IsValidRound)
        ELSE << >>
  IN
  IF ~playersResp.ok
  THEN /\ lastOp' = Op("refreshData", NULL, "PlayersFailed")
       /\ pre' = NoPre
       /\ UNCHANGED <<dataVars, rosterVars, authVars, storage, now, backVars>>
  ELSE IF ~roundsResp.ok
  THEN /\ players' = playersResp.data
       /\ lastOp' = Op("refreshData", NULL, "RoundsFailed")
       /\ pre' = NoPre
       /\ UNCHANGED <<rounds, pointsConfig, currentRound, hasMatches,
                      rosterVars, authVars, storage, now, backVars>>
  ELSE /\ players' = playersResp.data
       /\ rounds' = validRounds
       /\ currentRound' = determinCurrentRoundFromData(validRounds, now)
       /\ hasMatches' =
            (Len(validRounds) > 0 /\ validRounds[1].round \in matchRounds)
       /\ pointsConfig' =
            IF configResp.ok THEN configResp.data ELSE pointsConfig
       /\ loadTeamWith(players, currentRound, teamResp)
       /\ lastOp' = Op("refreshData", NULL, "loaded")
       /\ pre' = NoPre
       /\ UNCHANGED <<authVars, now, backVars>>

\* ------------------------------------------------------------------ auth
login(userId) ==
  /\ authStored' = userId
  /\ user' = userId
  /\ apiUser' = userId
  /\ lastOp' = Op("login", NULL, userId)
  /\ pre' = NoPre
  /\ UNCHANGED <<dataVars, rosterVars, storage, now, backVars>>

logout ==
  /\ authStored' = NoUser
  /\ user' = NoUser
  /\ apiUser' = NoUser
  /\ lastOp' = Op("logout", NULL, "")
  /\ pre' = NoPre
  /\ UNCHANGED <<dataVars, rosterVars, storage, now, backVars>>

\* the launch of the app: the providers start from their initial state and
\* loadUser restores the stored user at once, before the server has been
\* asked; the check of the user is left running in the background
loadUser ==
  /\ players' = EmptyCatalog
  /\ rounds' = << >>
  /\ pointsConfig' = DefaultPointsConfig
  /\ currentRound' = 1
  /\ selectedPlayers' = << >>
  /\ captainId' = NULL
  /\ totalPoints' = 0
  /\ transfersUsed' = 0
  /\ hasMatches' = FALSE
  /\ user' = authStored
  /\ apiUser' = authStored
  /\ verifying' = authStored
  /\ lastOp' = Op("loadUser", NULL,
                  IF authStored # NoUser THEN "restored" ELSE "none")
  /\ pre' = NoPre
  /\ UNCHANGED <<authStored, storage, now, serverRounds, retry>>

\* answers to the background check: the user is valid, the server does not
\* know the user (OK without a user, or 404), another non-OK status, or no
\* answer at all (the request throws)
VerifyAnswers == {"valid", "unknown", "404", "error", "offline"}

FailedChecks == VerifyAnswers \ {"valid"}

verifyUserInBackground(answer) ==
  /\ verifying # NoUser
  /\ IF answer = "valid"
     THEN /\ user' = verifying
          /\ authStored' = verifying
          /\ UNCHANGED apiUser
     ELSE IF answer \in {"unknown", "404"}
     THEN /\ authStored' = NoUser
          /\ user' = NoUser
          /\ apiUser' = NoUser
     ELSE UNCHANGED authVars
  /\ verifying' = NoUser
  /\ lastOp' = Op("verifyUserInBackground", NULL, answer)
  /\ pre' = NoPre
  /\ UNCHANGED <<dataVars, rosterVars, storage, now, serverRounds, retry>>

\* ------------------------------------------- RoundManagementScreen (admin)
\* the backend as a plain store of rounds: an update replaces the deadline
\* of the round, a creation adds the round, a closure sets its flag
ServerHasRound(n) == \E i \in DOMAIN serverRounds : serverRounds[i].round = n

ServerUpdateRound(n, d) ==
  [i \in DOMAIN serverRounds |->
     IF serverRounds[i].round = n
     THEN [serverRounds[i] EXCEPT !.deadline = d]
     ELSE serverRounds[i]]

ServerCreateRound(n, d) ==
  Append(serverRounds, RoundRecord(n, d, 1, NULL, FALSE))

ServerCloseRound(n) ==
  [i \in DOMAIN serverRounds |->
     IF serverRounds[i].round = n
     THEN [serverRounds[i] EXCEPT !.isClosed = TRUE]
     ELSE serverRounds[i]]

\* the Edit and Create forms: round number n (0 for a form left empty),
\* deadline d; ok is the answer of the server.  Edit is offered for every
\* round of the list.
handleSaveResult(editing, n, ok) ==
  IF n <= 0 THEN "ValidationError"
  ELSE IF ~ok THEN "Error"
  ELSE IF editing THEN "updated"
  ELSE "created"

handleSave(editing, n, d, ok) ==
  LET res == handleSaveResult(editing, n, ok) IN
  /\ n > 0 => (editing <=> ServerHasRound(n))
  /\ serverRounds' =
       IF res = "updated" THEN ServerUpdateRound(n, d)
       ELSE IF res = "created" THEN ServerCreateRound(n, d)
       ELSE serverRounds
  /\ lastOp' = Op("handleSave", n, res)
  /\ pre' = NoPre
  /\ UNCHANGED <<dataVars, rosterVars, authVars, storage, now, verifying,
                 retry>>

\* Close Now is offered for a round that is not closed and whose deadline
\* is not before now
handleCloseRound(n, ok) ==
  /\ \E i \in DOMAIN serverRounds :
       /\ serverRounds[i].round = n
       /\ ~serverRounds[i].isClosed
       /\ ~(serverRounds[i].deadline < now)
  /\ serverRounds' = IF ok THEN ServerCloseRound(n) ELSE serverRounds
  /\ lastOp' = Op("handleCloseRound", n, IF ok THEN "closed" ELSE "Error")
  /\ pre' = NoPre
  /\ UNCHANGED <<dataVars, rosterVars, authVars, storage, now, verifying,
                 retry>>

\* ----------------------------------------------------------------- clock
Tick ==
  /\ now < MaxTime
  /\ now' = now + 1
  /\ lastOp' = Op("tick", NULL, "")
  /\ pre' = NoPre
  /\ UNCHANGED <<dataVars, rosterVars, authVars, storage, backVars>>

\* ------------------------------------------------------------ retryHelper
\* most attempts a caller asks for
MaxRetries == 3

\* DEFAULT_OPTIONS
initialDelay == 1000

maxDelay == 10000

backoffMultiplier == 2

\* error messages, as the sequence of their parts
ErrorMessages ==
  {<<"Network", " request failed">>, <<"Request ", "timed out">>,
   <<"HTTP 500">>, <<"network", " unreachable">>}

\* lastError before any attempt has failed
Undefined == <<"undefined">>

\* errorMessage.includes(part)
MessageIncludes(errorMessage, part) ==
  \E i \in DOMAIN errorMessage : errorMessage[i] = part

isNetworkError(errorMessage) ==
  \/ MessageIncludes(errorMessage, "Network")
  \/ MessageIncludes(errorMessage, "Cannot connect")
  \/ MessageIncludes(errorMessage, "timed out")
  \/ MessageIncludes(errorMessage, "Failed to fetch")

\* outcomes of one call of the operation
Outcomes ==
  {[ok |-> TRUE, error |-> << >>]}
  \cup {[ok |-> FALSE, error |-> e] : e \in ErrorMessages}

IdleRetry ==
  [fn |-> "none", maxRetries |-> 0, attempt |-> 0, state |-> "idle",
   log |-> << >>, onRetry |-> << >>, waited |-> << >>, answers |-> << >>,
   delay |-> 0, lastError |-> Undefined, thrown |-> << >>, returned |-> 0]

\* the loop of fn entered with maxRetries attempts allowed
StartRetry(fn, m) ==
  [IdleRetry EXCEPT !.fn = fn, !.maxRetries = m, !.attempt = 1,
                    !.state = "running", !.delay = initialDelay]

\* the loop test with one attempt too many
loopContinuesInclusive(attempt, m) == attempt <= m + 1

\* for (let attempt = 1; attempt <= maxRetries; attempt++)
loopContinues(attempt, m) == attempt <= m

\* a loop that gives up on no error
abortsNever(errorMessage) == FALSE

\* if (!isNetworkError) throw error
abortsRetry(errorMessage) == ~isNetworkError(errorMessage)

Min(a, b) == IF a < b THEN a ELSE b

Thrown(r, e) == [r EXCEPT !.state = "thrown", !.thrown = e, !.lastError = e]

\* withRetry from one await to the next: the loop test, one call of the
\* operation and, when it fails, the catch block up to the wait
withRetryNext(out) ==
  LET called == [retry EXCEPT !.log = Append(@, out)] IN
  IF ~loopContinues(retry.attempt, retry.maxRetries)
  THEN Thrown(retry, retry.lastError)
  ELSE IF out.ok
  THEN [called EXCEPT !.state = "returned", !.returned = retry.attempt]
  ELSE IF retry.attempt = retry.maxRetries
  THEN Thrown(called, out.error)
  ELSE IF abortsRetry(out.error)
  THEN Thrown(called, out.error)
  ELSE [called EXCEPT !.lastError = out.error,
                      !.onRetry = Append(@, retry.attempt),
                      !.waited = Append(@, retry.delay),
                      !.delay = Min(retry.delay * backoffMultiplier, maxDelay),
                      !.attempt = retry.attempt + 1]

withRetry(out) ==
  /\ retry.fn = "withRetry"
  /\ retry.state = "running"
  /\ retry' = withRetryNext(out)
  /\ lastOp' = Op("withRetry", retry.attempt, retry'.state)
  /\ pre' = NoPre
  /\ UNCHANGED <<dataVars, rosterVars, authVars, storage, now, serverRounds,
                 verifying>>

\* withRetryDialog up to its return, its throw or the 'Connection Error'
\* dialog
withRetryDialogNext(out) ==
  LET called == [retry EXCEPT !.log = Append(@, out)] IN
  IF ~loopContinues(retry.attempt, retry.maxRetries)
  THEN Thrown(retry, retry.lastError)
  ELSE IF out.ok
  THEN [called EXCEPT !.state = "returned", !.returned = retry.attempt]
  ELSE IF abortsRetry(out.error)
  THEN Thrown(called, out.error)
  ELSE IF retry.attempt = retry.maxRetries
  THEN Thrown(called, out.error)
  ELSE [called EXCEPT !.lastError = out.error, !.state = "dialog"]

withRetryDialog(out) ==
  /\ retry.fn = "withRetryDialog"
  /\ retry.state = "running"
  /\ retry' = withRetryDialogNext(out)
  /\ lastOp' = Op("withRetryDialog", retry.attempt, retry'.state)
  /\ pre' = NoPre
  /\ UNCHANGED <<dataVars, rosterVars, authVars, storage, now, serverRounds,
                 verifying>>

\* the user's answer to the dialog: Retry (TRUE) or Cancel (FALSE)
answerDialog(shouldRetry) ==
  /\ retry.fn = "withRetryDialog"
  /\ retry.state = "dialog"
  /\ retry' =
       IF shouldRetry
       THEN [retry EXCEPT !.answers = Append(@, TRUE), !.state = "running",
                          !.attempt = retry.attempt + 1]
       ELSE [Thrown(retry, retry.lastError) EXCEPT
               !.answers = Append(@, FALSE)]
  /\ lastOp' = Op("answerDialog", retry.attempt, retry'.state)
  /\ pre' = NoPre
  /\ UNCHANGED <<dataVars, rosterVars, authVars, storage, now, serverRounds,
                 verifying>>

\* the providers right after construction
Init ==
  /\ players = EmptyCatalog
  /\ rounds = << >>
  /\ pointsConfig = DefaultPointsConfig
  /\ currentRound = 1
  /\ selectedPlayers = << >>
  /\ captainId = NULL
  /\ totalPoints = 0
  /\ transfersUsed = 0
  /\ hasMatches = FALSE
  /\ user = NoUser
  /\ authStored = NoUser
  /\ apiUser = NoUser
  /\ storage = [k \in StoreUsers \X RoundNums |-> << >>]
  /\ now = 0
  /\ serverRounds = << >>
  /\ verifying = NoUser
  /\ retry = IdleRetry
  /\ lastOp = Op("init", NULL, "")
  /\ pre = NoPre

\* ---------------------------------------------------- roster specification
\* The provider after its data has been loaded once and before any selection:
\* a fixed catalog, a fixed round list and a fixed points configuration.
InitRoster ==
  /\ players \in Catalogs
  /\ rounds \in {<< >>} \cup {<<r>> : r \in RoundRecords}
  /\ pointsConfig \in PointsConfigs
  /\ currentRound = 1
  /\ selectedPlayers = << >>
  /\ captainId = NULL
  /\ totalPoints = 0
  /\ transfersUsed = 0
  /\ hasMatches = TRUE
  /\ user = NoUser
  /\ authStored = NoUser
  /\ apiUser = NoUser
  /\ storage = [k \in StoreUsers \X RoundNums |-> << >>]
  /\ now = 1
  /\ serverRounds = << >>
  /\ verifying = NoUser
  /\ retry = IdleRetry
  /\ lastOp = Op("init", NULL, "")
  /\ pre = NoPre

NextRoster ==
  \/ \E p \in 0..MaxPlayer : selectPlayer(p)
  \/ \E p \in 0..MaxPlayer : removePlayer(p)
  \/ \E p \in {NULL} \cup 0..MaxPlayer : setCaptain(p)
  \/ resetSelection

SpecRoster == InitRoster /\ [][NextRoster]_vars

\* ------------------------------------------------- round specification
\* Round lists as the server may send them: up to two rounds with distinct
\* numbers, in any order, deadlines before or after one another, some of
\* them without a squad size (refreshData drops those).
ListedRounds ==
  {RoundRecord(n, d, pa, NULL, FALSE) :
     n \in RoundNums, d \in 1..MaxTime, pa \in {0, 1}}

RoundLists ==
  {<< >>} \cup {<<r>> : r \in ListedRounds}
  \cup {l \in {<<r, q>> : r \in ListedRounds, q \in ListedRounds} :
           l[1].round # l[2].round}

FullCatalog == [p \in PlayerIds |-> 1 + (p % 2)]

refreshRounds ==
  \E pa \in {Answer(FALSE, EmptyCatalog), Answer(TRUE, FullCatalog)},
     ra \in {Answer(FALSE, << >>)} \cup {Answer(TRUE, l) : l \in RoundLists},
     mr \in SUBSET RoundNums,
     ca \in {Answer(FALSE, DefaultPointsConfig),
             Answer(TRUE, DefaultPointsConfig)} :
    refreshData(pa, ra, mr, ca, TeamAnswer("notfound"))

NextRound ==
  \/ refreshRounds
  \/ Tick

SpecRound == Init /\ [][NextRound]_vars

\* ---------------------------------------------------- team specification
\* Loading and saving teams while the catalog changes.  The server serves
\* the full catalog or the catalog without its last player, and one open
\* round with a one-player squad.  The teams it serves were saved when the
\* round allowed two players; their captain is one of their players, as it
\* is for every team submitTeam is called with.
ServedCatalogs == {FullCatalog, Restrict(FullCatalog, PlayerIds \ {MaxPlayer})}

OpenRound == RoundRecord(1, MaxTime, 1, NULL, FALSE)

ServedSelections == {<<1, MaxPlayer>>}

ServedTeams ==
  {t \in {TeamRecord(sel, cap, 0, 0) :
            sel \in ServedSelections, cap \in PlayerIds} :
     Includes(t.selectedPlayers, t.captainId)}

TeamAnswers ==
  {TeamAnswer("notfound"), TeamAnswer("error"), TeamAnswer("malformed")}
  \cup {[kind |-> k, team |-> t] :
          k \in {"found", "foundStoreFails"}, t \in ServedTeams}

refreshTeam ==
  \E c \in ServedCatalogs, ta \in TeamAnswers :
    refreshData(Answer(TRUE, c), Answer(TRUE, <<OpenRound>>), RoundNums,
                Answer(TRUE, DefaultPointsConfig), ta)

NextTeam ==
  \/ \E u \in Users : login(u)
  \/ refreshTeam
  \/ \E ta \in TeamAnswers : loadTeam(ta)
  \/ \E ok \in BOOLEAN : saveTeam(ok)
  \/ \E p \in 0..MaxPlayer : selectPlayer(p)
  \/ \E p \in 0..MaxPlayer : removePlayer(p)
  \/ \E p \in {NULL} \cup 0..MaxPlayer : setCaptain(p)
  \/ resetSelection

SpecTeam == Init /\ [][NextTeam]_vars

\* ---------------------------------------------------- save specification
\* Saving a team while rounds close and time passes.  The server serves the
\* full catalog and two rounds with one-player squads, the first of them
\* open or closed by the admin; no team is stored on the server.
ServedRoundLists ==
  {<<RoundRecord(1, 1, 1, NULL, c), RoundRecord(2, 2, 1, NULL, FALSE)>> :
     c \in BOOLEAN}

refreshSave ==
  \E pa \in {Answer(FALSE, EmptyCatalog), Answer(TRUE, FullCatalog)},
     ra \in {Answer(FALSE, << >>)}
            \cup {Answer(TRUE, l) : l \in ServedRoundLists} :
    refreshData(pa, ra, RoundNums, Answer(TRUE, DefaultPointsConfig),
                TeamAnswer("notfound"))

NextSave ==
  \/ \E u \in Users : login(u)
  \/ logout
  \/ refreshSave
  \/ \E ok \in BOOLEAN : saveTeam(ok)
  \/ \E p \in 0..MaxPlayer : selectPlayer(p)
  \/ \E p \in {NULL} \cup 0..MaxPlayer : setCaptain(p)
  \/ resetSelection
  \/ Tick

SpecSave == Init /\ [][NextSave]_vars

\* ---------------------------------------------------- auth specification
\* Sessions: the app is launched with or without a stored user, the check
\* of a restored user is answered while the app is used, users log in and
\* out.
InitAuth ==
  /\ players = EmptyCatalog
  /\ rounds = << >>
  /\ pointsConfig = DefaultPointsConfig
  /\ currentRound = 1
  /\ selectedPlayers = << >>
  /\ captainId = NULL
  /\ totalPoints = 0
  /\ transfersUsed = 0
  /\ hasMatches = FALSE
  /\ user = NoUser
  /\ authStored \in Users \cup {NoUser}
  /\ apiUser = NoUser
  /\ storage = [k \in StoreUsers \X RoundNums |-> << >>]
  /\ now = 0
  /\ serverRounds = << >>
  /\ verifying = NoUser
  /\ retry = IdleRetry
  /\ lastOp = Op("init", NULL, "")
  /\ pre = NoPre

NextAuth ==
  \/ loadUser
  \/ \E a \in VerifyAnswers : verifyUserInBackground(a)
  \/ \E u \in Users : login(u)
  \/ logout
  \/ refreshSave
  \/ \E p \in 0..MaxPlayer : selectPlayer(p)
  \/ \E ok \in BOOLEAN : saveTeam(ok)

SpecAuth == InitAuth /\ [][NextAuth]_vars

\* --------------------------------------------------- admin specification
\* The admin creates, edits and closes rounds while time passes, and the
\* provider refreshes from the rounds the backend holds.
refreshAdmin ==
  refreshData(Answer(TRUE, FullCatalog), Answer(TRUE, serverRounds),
              RoundNums, Answer(TRUE, DefaultPointsConfig),
              TeamAnswer("notfound"))

NextAdmin ==
  \/ \E e \in BOOLEAN, n \in {0} \cup RoundNums, d \in 1..MaxTime,
        ok \in BOOLEAN : handleSave(e, n, d, ok)
  \/ \E n \in RoundNums, ok \in BOOLEAN : handleCloseRound(n, ok)
  \/ refreshAdmin
  \/ Tick

SpecAdmin == Init /\ [][NextAdmin]_vars

\* --------------------------------------------------- match specification
\* Refreshes against a server that has matches for round 1 and none for the
\* other rounds.
MatchedRounds == {1}

refreshMatch ==
  \E ra \in {Answer(FALSE, << >>)} \cup {Answer(TRUE, l) : l \in RoundLists} :
    refreshData(Answer(TRUE, FullCatalog), ra, MatchedRounds,
                Answer(TRUE, DefaultPointsConfig), TeamAnswer("notfound"))

NextMatch ==
  \/ refreshMatch
  \/ Tick

SpecMatch == Init /\ [][NextMatch]_vars

\* ----------------------------------------------------- tap specification
\* The first team of a round being assembled on the selection screen: taps
\* on the player list and the handlers of the provider, from an empty roster,
\* without a reset.
NextTap ==
  \/ \E p \in 0..MaxPlayer : handleSelectPlayer(p)
  \/ \E p \in 0..MaxPlayer : selectPlayer(p)
  \/ \E p \in 0..MaxPlayer : removePlayer(p)
  \/ \E p \in {NULL} \cup 0..MaxPlayer : setCaptain(p)

SpecTap == InitRoster /\ [][NextTap]_vars

\* --------------------------------------------------- squad specification
\* A logged-in user assembling and saving a squad: the provider after its
\* data has been loaded once, with a fixed catalog and a fixed round that
\* asks for one or two players, with or without a budget, open or closed.
InitSquad ==
  /\ players \in Catalogs
  /\ rounds \in {<<r>> : r \in RoundRecords}
  /\ pointsConfig = DefaultPointsConfig
  /\ currentRound = 1
  /\ selectedPlayers = << >>
  /\ captainId = NULL
  /\ totalPoints = 0
  /\ transfersUsed = 0
  /\ hasMatches = TRUE
  /\ user \in Users
  /\ authStored = user
  /\ apiUser = user
  /\ storage = [k \in StoreUsers \X RoundNums |-> << >>]
  /\ now = 1
  /\ serverRounds = << >>
  /\ verifying = NoUser
  /\ retry = IdleRetry
  /\ lastOp = Op("init", NULL, "")
  /\ pre = NoPre

NextSquad ==
  \/ \E p \in 0..MaxPlayer : selectPlayer(p)
  \/ \E p \in {NULL} \cup 0..MaxPlayer : setCaptain(p)
  \/ resetSelection
  \/ \E ok \in BOOLEAN : saveTeam(ok)

SpecSquad == InitSquad /\ [][NextSquad]_vars

\* ------------------------------------------------------------ properties
\* the current round is closed: by the admin, or its deadline has passed
RoundIsClosed ==
  HasRoundInfo
  /\ (getCurrentRoundInfo.isClosed \/ ~(now < getCurrentRoundInfo.deadline))

\* total price of a selection whose players are all in the catalog
RECURSIVE TotalPrice(_, _)
TotalPrice(sel, i) ==
  IF i > Len(sel) THEN 0 ELSE players[sel[i]] + TotalPrice(sel, i + 1)

NoDuplicates(sel) ==
  \A i, j \in DOMAIN sel : sel[i] = sel[j] => i = j

\* C1: under a current round with a bounded budget B and a fixed catalog, the
\* prices of the selected players never sum to more than B, whatever sequence
\* of selectPlayer, removePlayer, setCaptain and resetSelection has run.
C1_BudgetNeverExceeded ==
  (HasRoundInfo /\ getCurrentRoundInfo.budget # NULL)
    => TotalPrice(selectedPlayers, 1) <= getCurrentRoundInfo.budget

\* a selection was accepted that spends the budget exactly
C1_Witness ==
  /\ HasRoundInfo
  /\ getCurrentRoundInfo.budget # NULL
  /\ lastOp.op = "selectPlayer" /\ lastOp.res = "selected"
  /\ TotalPrice(selectedPlayers, 1) = getCurrentRoundInfo.budget

\* C2: under a current round with playersAllowed = N, selectedPlayers never
\* has more than N members and never holds the same player id twice.
C2_SizeNeverExceeded ==
  /\ NoDuplicates(selectedPlayers)
  /\ HasRoundInfo =>
       Len(selectedPlayers) <= getCurrentRoundInfo.playersAllowed

\* a selection was refused on a roster that is full
C2_Witness ==
  /\ HasRoundInfo
  /\ Len(selectedPlayers) = getCurrentRoundInfo.playersAllowed
  /\ lastOp.op = "selectPlayer" /\ lastOp.res = "rejected"
  /\ ~Includes(selectedPlayers, lastOp.arg)

\* C7: a selectPlayer or removePlayer attempted while the current round is
\* closed (admin flag set, or deadline passed) is rejected and changes nothing.
C7_ClosedRoundRejectsMutation ==
  (RoundIsClosed /\ lastOp.op \in {"selectPlayer", "removePlayer"})
    => lastOp.res \notin {"selected", "removed"}

\* C8: a successful removePlayer adds exactly 1 to transfersUsed and takes
\* off totalPoints nothing when transfersUsed before the call is below the
\* free allowance, and exactly the transfer penalty otherwise.
C8_RemovalAccounting ==
  pre.stage = "removed" =>
    /\ transfersUsed = pre.tu + 1
    /\ totalPoints =
         pre.tp - (IF pre.tu < pointsConfig.freeTransfersPerRound
                   THEN 0 ELSE pointsConfig.transferPenalty)

\* with 1 free transfer and penalty 30, the second removal has cost 30
C8_Witness ==
  /\ pre.stage = "removed"
  /\ pointsConfig.freeTransfersPerRound = 1
  /\ pointsConfig.transferPenalty = 30
  /\ pre.tu = 1
  /\ totalPoints = pre.tp - 30

\* C9 as stated: removePlayer(p) followed at once by selectPlayer(p) gives
\* back the same selectedPlayers and the same captainId, with transfersUsed
\* one higher.
C9_ReselectRestoresRoster ==
  pre.stage = "reselected" =>
    /\ lastOp.res = "selected"
    /\ Members(selectedPlayers) = Members(pre.sel)
    /\ captainId = pre.cap
    /\ transfersUsed = pre.tu + 1

\* C9 amended: removePlayer(p) followed at once by selectPlayer(p) gives back
\* the same set of selected players (p now last in the list) with
\* transfersUsed one higher; captainId is the one before the removal unless p
\* was the captain, in which case captainId is null.
C9_ReselectRestoresPlayers ==
  pre.stage = "reselected" =>
    /\ lastOp.res = "selected"
    /\ selectedPlayers =
         Append(SelectSeq(pre.sel, LAMBDA id : id # pre.id), pre.id)
    /\ Members(selectedPlayers) = Members(pre.sel)
    /\ captainId = (IF pre.cap = pre.id THEN NULL ELSE pre.cap)
    /\ transfersUsed = pre.tu + 1

\* the captain was removed and selected again
C9_Witness ==
  /\ pre.stage = "reselected"
  /\ pre.cap = pre.id
  /\ lastOp.res = "selected"

\* a refresh has just loaded the round list; the clock is still the one the
\* refresh read
JustRefreshed == lastOp.op = "refreshData" /\ lastOp.res = "loaded"

DeadlineAhead(i) == now < rounds[i].deadline

\* C4: with a non-empty round list in which some deadline is later than now,
\* the current round stored by the refresh is the number of the first round,
\* in list order, whose deadline is later than now.
C4_FirstOpenRoundIsCurrent ==
  (JustRefreshed /\ \E i \in DOMAIN rounds : DeadlineAhead(i))
    => \E i \in DOMAIN rounds :
         /\ DeadlineAhead(i)
         /\ \A j \in 1..(i - 1) : ~DeadlineAhead(j)
         /\ currentRound = rounds[i].round

\* round 1 is past its deadline, round 2 is not, and round 2 is current
C4_Witness ==
  /\ JustRefreshed
  /\ Len(rounds) = 2
  /\ rounds[1].round = 1 /\ ~DeadlineAhead(1)
  /\ rounds[2].round = 2 /\ DeadlineAhead(2)
  /\ currentRound = 2

\* C5: with a non-empty round list in which now is past every deadline, the
\* current round is the number of the first round of the list, whatever that
\* number is, and getCurrentRoundInfo finds that first record.
C5_FallbackIsFirstListed ==
  (JustRefreshed /\ rounds # << >>
   /\ \A i \in DOMAIN rounds : ~DeadlineAhead(i))
    => /\ currentRound = rounds[1].round
       /\ FindRound(rounds, currentRound, 1) = 1

\* C3: in every reachable roster state, after any sequence of selectPlayer,
\* removePlayer, setCaptain, resetSelection and loadTeam (its local-storage
\* fallbacks included), captainId is null or a member of selectedPlayers.
C3_CaptainIsMember ==
  captainId = NULL \/ Includes(selectedPlayers, captainId)

\* loadTeam has loaded a team of the server whose captain is no longer in the
\* catalog: the captain is dropped together with the player
C3_Witness ==
  /\ lastOp.op = "loadTeam" /\ lastOp.res = "found"
  /\ user # NoUser
  /\ storage[TeamKey(user, currentRound)] # << >>
  /\ storage[TeamKey(user, currentRound)][1].captainId = MaxPlayer
  /\ ~PlayerExists(players, MaxPlayer)
  /\ selectedPlayers = <<1>>
  /\ captainId = NULL

\* C6 as stated: saveTeam calls submitTeam only for an open round, one whose
\* isClosed is false and whose deadline is later than now; for a current round
\* closed by the admin or past its deadline it never calls submitTeam.
C6_SubmitOnlyForOpenRound ==
  (lastOp.op = "saveTeam" /\ lastOp.res \in SubmitCalled)
    => /\ HasRoundInfo
       /\ ~getCurrentRoundInfo.isClosed
       /\ now < getCurrentRoundInfo.deadline

ViolatedConditions ==
  (IF getCurrentRoundInfo.isClosed THEN {"RoundClosed"} ELSE {})
  \cup (IF Len(selectedPlayers) # getCurrentRoundInfo.playersAllowed
         THEN {"IncompleteTeam"} ELSE {})
  \cup (IF Len(invalidPlayers) > 0 THEN {"InvalidTeam"} ELSE {})
  \cup (IF captainId # NULL /\ ~Includes(selectedPlayers, captainId)
         THEN {"InvalidCaptain"} ELSE {})
  \cup (IF getCurrentRoundInfo.budget # NULL
            /\ Spent(players, selectedPlayers) > getCurrentRoundInfo.budget
         THEN {"BudgetExceeded"} ELSE {})

\* the conditions the last saveTeam reported as violated
ReportedConditions ==
  IF lastOp.res \in SubmitCalled THEN {} ELSE {lastOp.res}

\* C12 as stated: the validation before a save collects every violated
\* condition (closed round, wrong squad size, unresolved player, captain not
\* a member, budget exceeded): for a roster that violates k of them the
\* result lists all k, not only the first one met.
C12_AllViolationsReported ==
  (lastOp.op = "saveTeam" /\ user # NoUser /\ HasRoundInfo)
    => ReportedConditions = ViolatedConditions

\* C13: saveTeam writes the roster to local storage, under the key of the
\* user and the current round, only after submitTeam has answered success;
\* when the submit fails the stored roster of that key is unchanged.
C13_StoredOnlyAfterSubmitSuccess ==
  [][lastOp'.op = "saveTeam" =>
       IF lastOp'.res = "saved"
       THEN storage' =
              [storage EXCEPT ![TeamKey(user, currentRound)] =
                 <<TeamRecord(selectedPlayers, captainId, transfersUsed,
                              totalPoints)>>]
       ELSE storage' = storage]_vars

\* a submit failed for a roster other than the one stored by an earlier save
C13_Witness ==
  /\ lastOp.op = "saveTeam" /\ lastOp.res = "SaveFailed"
  /\ storage[TeamKey(user, currentRound)] # << >>
  /\ storage[TeamKey(user, currentRound)][1].selectedPlayers
       # selectedPlayers

\* C14: when a tap is refused on a roster that already has playersAllowed
\* members, the reason told is TeamFull, also when the player would not fit
\* the budget either: the size is looked at before the budget.
C14_FullBeforeBudget ==
  (lastOp.op = "handleSelectPlayer" /\ lastOp.res \in Refusals
   /\ Len(selectedPlayers) >= getCurrentRoundInfo.playersAllowed)
    => lastOp.res = "TeamFull"

\* a tap was refused with TeamFull on a player that costs more than the
\* budget that remains
C14_Witness ==
  /\ lastOp.op = "handleSelectPlayer" /\ lastOp.res = "TeamFull"
  /\ getCurrentRoundInfo.budget # NULL
  /\ players[lastOp.arg] > getRemainingBudget

\* C15 as stated, for the first removal of a round: a removePlayer made
\* before the roster has reached playersAllowed members (no player has been
\* removed yet and the roster is still short) leaves transfersUsed and
\* totalPoints unchanged.
C15_NoTransferBeforeBaseline ==
  (pre.stage = "removed" /\ HasRoundInfo /\ pre.tu = 0
   /\ Len(pre.sel) < getCurrentRoundInfo.playersAllowed)
    => /\ transfersUsed = pre.tu
       /\ totalPoints = pre.tp

\* C16 as stated, with no roster saved for the new round: when a refresh
\* makes another round the current one, the roster is reset: selectedPlayers
\* is empty, captainId is null and transfersUsed is 0 after it.
C16_NewRoundResetsRoster ==
  [][(lastOp'.op = "refreshData" /\ lastOp'.res = "loaded"
      /\ currentRound' # currentRound)
       => /\ selectedPlayers' = << >>
          /\ captainId' = NULL
          /\ transfersUsed' = 0]_vars

\* C17 as stated, for round lists with a deadline ahead: after a refresh has
\* loaded the rounds, hasMatches is true iff the current round, the one
\* determinCurrentRoundFromData chose, has at least one match, wherever that
\* round stands in the list.
C17_HasMatchesIsOfCurrentRound ==
  (JustRefreshed /\ \E i \in DOMAIN rounds : DeadlineAhead(i))
    => (hasMatches <=> currentRound \in MatchedRounds)

\* C19: with no user logged in, saveTeam and loadTeam refuse to operate
\* (AuthenticationRequired): they stop before any call to the server, write
\* nothing to local storage and leave selectedPlayers, captainId,
\* transfersUsed and totalPoints unchanged.
C19_NoUserNoSaveNoLoad ==
  [][(lastOp'.op \in {"saveTeam", "loadTeam"} /\ user = NoUser)
       => /\ lastOp'.res = "AuthenticationRequired"
          /\ UNCHANGED <<rosterVars, storage>>]_vars

\* a complete team was refused by saveTeam because nobody is logged in
C19_Witness ==
  /\ lastOp.op = "saveTeam" /\ lastOp.res = "AuthenticationRequired"
  /\ user = NoUser
  /\ HasRoundInfo
  /\ Len(selectedPlayers) = getCurrentRoundInfo.playersAllowed

\* C20 as stated: when the background check of a restored session fails
\* (user unknown to the server, non-OK response, or no answer), the session
\* is downgraded: user is null, the stored credentials are removed and the
\* user id of the API is cleared.
C20_FailedCheckDowngrades ==
  (lastOp.op = "verifyUserInBackground" /\ lastOp.res \in FailedChecks)
    => /\ user = NoUser
       /\ authStored = NoUser
       /\ apiUser = NoUser

\* round n of the backend accepts submissions: not closed by the admin and
\* its deadline is ahead
ServerRoundOpen(n) ==
  \E i \in DOMAIN serverRounds :
    /\ serverRounds[i].round = n
    /\ ~serverRounds[i].isClosed
    /\ now < serverRounds[i].deadline

\* C18 as stated: CLOSED is terminal.  Once a round is closed, by the admin
\* or by its deadline passing, no later action of the admin (an update with
\* a new deadline included) and no passage of time makes it open again.
C18_ClosedIsTerminal ==
  [][\A n \in RoundNums :
       (ServerHasRound(n) /\ ~ServerRoundOpen(n)) => ~ServerRoundOpen(n)']_vars

\* C21 as stated: removePlayer(p) succeeds iff p is in selectedPlayers.  For
\* every member p, one that has disappeared from the catalog included, it
\* removes p and clears captainId when p was the captain; for every
\* non-member it fails and leaves the roster, transfersUsed and totalPoints
\* unchanged.
C21_RemoveIffMember ==
  [][lastOp'.op = "removePlayer" =>
       IF Includes(selectedPlayers, lastOp'.arg)
       THEN /\ lastOp'.res = "removed"
            /\ selectedPlayers' =
                 SelectSeq(selectedPlayers, LAMBDA id : id # lastOp'.arg)
            /\ captainId' =
                 (IF captainId = lastOp'.arg THEN NULL ELSE captainId)
       ELSE /\ lastOp'.res # "removed"
            /\ UNCHANGED rosterVars]_vars

\* the reference predicate of a selection, for a roster whose players are
\* all in the catalog
CanSelectReference(p) ==
  /\ HasRoundInfo
  /\ p \in DOMAIN players
  /\ p \notin Members(selectedPlayers)
  /\ Len(selectedPlayers) < getCurrentRoundInfo.playersAllowed
  /\ \/ getCurrentRoundInfo.budget = NULL
     \/ TotalPrice(selectedPlayers, 1) + players[p]
          <= getCurrentRoundInfo.budget

\* C22: canSelectPlayer(p) is true iff p is in the catalog, p is not selected
\* yet, the roster has fewer than playersAllowed members, and the budget is
\* unlimited or the prices of the selected players plus the price of p do
\* not exceed it; selectPlayer appends p iff this holds and otherwise leaves
\* the roster as it is.
C22_CanSelectIsReference ==
  [][/\ \A p \in 0..MaxPlayer : canSelectPlayer(p) <=> CanSelectReference(p)
     /\ lastOp'.op = "selectPlayer" =>
          selectedPlayers' =
            (IF CanSelectReference(lastOp'.arg)
             THEN Append(selectedPlayers, lastOp'.arg)
             ELSE selectedPlayers)]_vars

\* a player was refused only because it costs one more than the budget that
\* remains, and another was selected that costs exactly what remained
C22_Witness ==
  /\ lastOp.op = "selectPlayer" /\ lastOp.res = "rejected"
  /\ HasRoundInfo
  /\ getCurrentRoundInfo.budget # NULL
  /\ Len(selectedPlayers) < getCurrentRoundInfo.playersAllowed
  /\ ~Includes(selectedPlayers, lastOp.arg)
  /\ players[lastOp.arg] = getRemainingBudget + 1
  /\ \E q \in DOMAIN players :
       ~Includes(selectedPlayers, q) /\ players[q] = getRemainingBudget

\* the deduction of one removal by the round record's own allowance and
\* penalty, the values the transfer banner reads
roundRemovalPenalty ==
  IF getCurrentRoundInfo.freeTransfers - transfersUsed <= 0
  THEN getCurrentRoundInfo.transferPenalty
  ELSE 0

\* C23 as stated: the points a successful removePlayer takes off are those
\* that follow from the current round's freeTransfers and transferPenalty,
\* also when the global points configuration holds other values.
C23_PenaltyIsOfRound ==
  [][(lastOp'.op = "removePlayer" /\ lastOp'.res = "removed" /\ HasRoundInfo)
       => totalPoints - totalPoints' = roundRemovalPenalty]_vars

\* ------------------------------------------------ no-round specification
\* The roster handlers and saveTeam while the server's round list comes and
\* goes: getRounds answers with no round at all or with the one open round.
refreshNoRound ==
  \E l \in {<< >>, <<OpenRound>>} :
    refreshData(Answer(TRUE, FullCatalog), Answer(TRUE, l), RoundNums,
                Answer(TRUE, DefaultPointsConfig), TeamAnswer("notfound"))

NextNoRound ==
  \/ \E u \in Users : login(u)
  \/ refreshNoRound
  \/ \E ok \in BOOLEAN : saveTeam(ok)
  \/ \E p \in 0..MaxPlayer : selectPlayer(p)
  \/ \E p \in 0..MaxPlayer : removePlayer(p)
  \/ \E p \in {NULL} \cup 0..MaxPlayer : setCaptain(p)

SpecNoRound == InitRoster /\ [][NextNoRound]_vars

\* C24 as stated: while the round list is empty there is no current round
\* record, and selectPlayer, removePlayer, setCaptain of a player and
\* saveTeam are all refused: the roster stays as it is and nothing is
\* submitted or stored.
C24_NoRoundRefusesAll ==
  [][(/\ rounds = << >>
      /\ lastOp'.op \in {"selectPlayer", "removePlayer", "setCaptain",
                         "saveTeam"}
      /\ lastOp'.arg # NULL \/ lastOp'.op = "saveTeam")
       => /\ ~HasRoundInfo
          /\ currentRound = 1
          /\ UNCHANGED rosterVars
          /\ UNCHANGED storage
          /\ lastOp'.res \notin SubmitCalled]_vars

\* C25 as stated: transfersUsed never decreases and points taken off as a
\* penalty never come back, whatever the step (selecting again, saveTeam,
\* refreshData, loadTeam); only resetSelection sets transfersUsed to zero.
C25_TransfersNeverGoBack ==
  [][lastOp'.op # "resetSelection"
       => /\ transfersUsed' >= transfersUsed
          /\ totalPoints' <= totalPoints]_vars

\* --------------------------------------------------- retry specification
\* One run of withRetry or withRetryDialog, for every number of attempts up
\* to MaxRetries and every course of the operation's outcomes.
InitRetry ==
  /\ players = EmptyCatalog
  /\ rounds = << >>
  /\ pointsConfig = DefaultPointsConfig
  /\ currentRound = 1
  /\ selectedPlayers = << >>
  /\ captainId = NULL
  /\ totalPoints = 0
  /\ transfersUsed = 0
  /\ hasMatches = FALSE
  /\ user = NoUser
  /\ authStored = NoUser
  /\ apiUser = NoUser
  /\ storage = [k \in StoreUsers \X RoundNums |-> << >>]
  /\ now = 0
  /\ serverRounds = << >>
  /\ verifying = NoUser
  /\ retry \in {StartRetry(fn, m) :
                  fn \in {"withRetry", "withRetryDialog"}, m \in 0..MaxRetries}
  /\ lastOp = Op("init", NULL, "")
  /\ pre = NoPre

NextRetry ==
  \/ \E out \in Outcomes : withRetry(out)
  \/ \E out \in Outcomes : withRetryDialog(out)
  \/ \E a \in BOOLEAN : answerDialog(a)

SpecRetry == InitRetry /\ [][NextRetry]_vars

\* every call of the operation so far failed with a network error
AllNetworkFailures ==
  \A i \in DOMAIN retry.log :
    ~retry.log[i].ok /\ isNetworkError(retry.log[i].error)

\* C26: withRetry calls the operation at most maxRetries times; it returns
\* the result of the first attempt that succeeds and that attempt is the
\* last call; when every attempt fails with a network error it throws, after
\* maxRetries calls, the error of the last attempt.
C26_WithRetryOutcome ==
  retry.fn = "withRetry" =>
    /\ Len(retry.log) <= retry.maxRetries
    /\ \A i \in DOMAIN retry.log :
         retry.log[i].ok =>
           /\ i = Len(retry.log)
           /\ retry.state = "returned"
           /\ retry.returned = i
    /\ retry.state = "returned" => retry.log[Len(retry.log)].ok
    /\ (retry.state = "thrown" /\ retry.log # << >> /\ AllNetworkFailures)
         => /\ Len(retry.log) = retry.maxRetries
            /\ retry.thrown = retry.log[Len(retry.log)].error

\* three attempts failed with network errors, the last with another message
\* than the first, and the last error was thrown
C26_Witness ==
  /\ retry.fn = "withRetry"
  /\ retry.state = "thrown"
  /\ retry.maxRetries = 3
  /\ Len(retry.log) = 3
  /\ AllNetworkFailures
  /\ retry.log[1].error # retry.log[3].error
  /\ retry.thrown = retry.log[3].error

\* C27: in withRetry and withRetryDialog an attempt that fails with an error
\* that is no network error is the last call of the operation: that error
\* is thrown, and neither onRetry nor a delay nor a dialog follows it; in
\* withRetryDialog the answer Cancel ends the loop in the same way, with the
\* error of the attempt just made.
C27_NonRetryableAborts ==
  /\ \A i \in DOMAIN retry.log :
       (~retry.log[i].ok /\ ~isNetworkError(retry.log[i].error))
         => /\ i = Len(retry.log)
            /\ retry.state = "thrown"
            /\ retry.thrown = retry.log[i].error
            /\ Len(retry.onRetry) = i - 1 \/ retry.fn = "withRetryDialog"
            /\ Len(retry.waited) = i - 1 \/ retry.fn = "withRetryDialog"
            /\ Len(retry.answers) = i - 1 \/ retry.fn = "withRetry"
  /\ \A i \in DOMAIN retry.answers :
       ~retry.answers[i]
         => /\ i = Len(retry.answers)
            /\ Len(retry.log) = i
            /\ retry.state = "thrown"
            /\ retry.thrown = retry.log[i].error

\* the second of three attempts allowed failed with an error that is no
\* network error, after one retry
C27_Witness ==
  /\ retry.fn = "withRetry"
  /\ retry.maxRetries = 3
  /\ Len(retry.log) = 2
  /\ ~retry.log[2].ok
  /\ ~isNetworkError(retry.log[2].error)
  /\ retry.state = "thrown"
  /\ retry.onRetry = <<1>>

\* --------------------------------------------------- batch specification
\* Two selectPlayer calls of one render: both closures hold the same
\* selectedPlayers, each call that passes canSelectPlayer asks React to set
\* the roster to its own copy [...selectedPlayers, playerId], and the state
\* after both updates is the value of the later one.
selectPlayerBatch(first, second) ==
  LET res1 == selectPlayerResult(first)
      res2 == selectPlayerResult(second)
  IN
  /\ selectedPlayers' =
       IF res2 = "selected" THEN Append(selectedPlayers, second)
       ELSE IF res1 = "selected" THEN Append(selectedPlayers, first)
       ELSE selectedPlayers
  /\ lastOp' = Op("selectPlayerBatch", first, res1)
  /\ pre' = [NoPre EXCEPT !.stage = "batch", !.id = second,
                          !.sel = selectedPlayers]
  /\ UNCHANGED <<captainId, totalPoints, transfersUsed>>
  /\ UNCHANGED <<dataVars, authVars, storage, now, backVars>>

NextBatch ==
  \/ \E p \in 0..MaxPlayer : selectPlayer(p)
  \/ \E p, q \in 0..MaxPlayer : selectPlayerBatch(p, q)
  \/ \E p \in {NULL} \cup 0..MaxPlayer : setCaptain(p)
  \/ resetSelection

SpecBatch == InitRoster /\ [][NextBatch]_vars

\* C28 as stated: when two selectPlayer calls for different players are made
\* against the same roster and each passes canSelectPlayer, both players
\* are in selectedPlayers once both updates have been applied.  Stated for
\* the rosters that have room and budget for the two players together.
C28_NoSelectionLost ==
  [][(/\ lastOp'.op = "selectPlayerBatch"
      /\ lastOp'.arg # pre'.id
      /\ canSelectPlayer(lastOp'.arg)
      /\ canSelectPlayer(pre'.id)
      /\ Len(selectedPlayers) + 2 <= getCurrentRoundInfo.playersAllowed
      /\ \/ getCurrentRoundInfo.budget = NULL
         \/ players[lastOp'.arg] + players[pre'.id] <= getRemainingBudget)
       => /\ Includes(selectedPlayers', lastOp'.arg)
          /\ Includes(selectedPlayers', pre'.id)]_vars

\* nobody is logged in: no user in the provider, no stored credentials and
\* no user id in the API service
LoggedOut ==
  /\ user = NoUser
  /\ authStored = NoUser
  /\ apiUser = NoUser

\* C29 as stated: once logout has completed, the user, the stored
\* credentials and the API user id stay absent through every step that is
\* not a login, the late answer of a background verification included.
C29_LogoutIsFinal ==
  [][(LoggedOut /\ lastOp.op = "logout" /\ lastOp'.op # "login")
       => (user' = NoUser /\ authStored' = NoUser /\ apiUser' = NoUser)]_vars

\* -------------------------------------------------- switch specification
\* Two accounts on one device.  Only the first account picks players and a
\* captain; the other account has no team on the server and none on the
\* device, so every getUserTeam answers that there is no team.  The login
\* screen is shown to a logged-out user only.
refreshSwitch ==
  refreshData(Answer(TRUE, FullCatalog), Answer(TRUE, <<OpenRound>>),
              RoundNums, Answer(TRUE, DefaultPointsConfig),
              TeamAnswer("notfound"))

NextSwitch ==
  \/ \E u \in StoreUsers : user = NoUser /\ login(u)
  \/ logout
  \/ refreshSwitch
  \/ loadTeam(TeamAnswer("notfound"))
  \/ \E p \in 0..MaxPlayer : user \in Users /\ selectPlayer(p)
  \/ \E p \in {NULL} \cup 0..MaxPlayer : user \in Users /\ setCaptain(p)
  \/ \E ok \in BOOLEAN : saveTeam(ok)

SpecSwitch == Init /\ [][NextSwitch]_vars

\* C30 as stated: a roster does not cross users.  While the second account
\* has selected nothing and loaded nothing, saveTeam never calls submitTeam
\* under its id and never stores a team for it.
C30_NoRosterAcrossUsers ==
  /\ ~(lastOp.op = "saveTeam" /\ lastOp.res \in SubmitCalled
       /\ user = OtherUser)
  /\ \A r \in RoundNums : storage[TeamKey(OtherUser, r)] = << >>

====
